---- MODULE Spec2Model ----
(***************************************************************************)
(* A model of karrick/gotrie's PrefixTrie: a trie with one level per key   *)
(* byte, with Insert, Find, Delete and a resumable Scan cursor.            *)
(*                                                                         *)
(* Pointers.  A *pnode is modelled by the byte path that leads to the node *)
(* from t.root: the tree has no sharing, so the path identifies a linked   *)
(* node.  The heap `nodes` holds the pnode objects reachable from t.root.  *)
(* A pnode that Delete has unlinked stays alive in Go for as long as a     *)
(* scan bookmark points to it; it has no children and is not valid at the  *)
(* moment it is unlinked and no code can reach it to change it afterwards, *)
(* so such a bookmark carries gone = TRUE and the node's value (stale).    *)
(*                                                                         *)
(* The 256-way children array is scaled down to NumChildren slots.         *)
(***************************************************************************)
EXTENDS Integers, Sequences, FiniteSets, TLC

\* ----------------------------------------------------------------- bounds
NumChildren == 2      \* length of pnode.children (256 in the source)
MaxKeyLen == 2        \* longest key passed to Insert, Find and Delete
MaxVal == 2           \* values passed to Insert are 1..MaxVal
MaxIns == 2           \* number of Insert calls in one run
MaxDel == 2           \* number of Delete calls in one run

Bytes == 0..(NumChildren - 1)
Keys == UNION {[1..n -> Bytes] : n \in 0..MaxKeyLen}
Values == 1..MaxVal

\* -------------------------------------------------------------- the heap
nil == <<-1>>         \* the nil *pnode
nilValue == 0         \* the nil interface{} value
root == <<>>          \* t.root, the node of the empty key

\* new(pnode)
pnode == [children |-> [b \in Bytes |-> nil], value |-> nilValue, valid |-> FALSE]

\* NewPrefixTrie: the heap holds the root node only
NewPrefixTrie == [p \in {root} |-> pnode]

VARIABLES
    nodes,      \* heap: pointer (path) -> pnode, for nodes linked from t.root
    bookmarks,  \* t.bookmarks, the scan cursor
    stored,     \* history: key -> value of the last Insert not followed by Delete
    last,       \* history: the last call and what it returned; key is the argument of
                \* Insert and Delete and the Text() read after a true Scan or by Pair
    scanning,   \* history: the last Scan call returned true (a pass is running)
    yielded,    \* history: the Pair() read after each true Scan of this pass (kept while not dirty)
    dirty,      \* history: Insert or Delete was called during this pass
    fresh,      \* history: this pass began with no bookmarks
    passes,     \* history: the last (at most two) completed passes, no mutation since the first began
    nins,       \* history: number of Insert calls so far
    ndel        \* history: number of Delete calls so far

vars == <<nodes, bookmarks, stored, last, scanning, yielded, dirty, fresh, passes, nins, ndel>>

\* ------------------------------------------------------------------ Find
\* FindWalk with "return n.value, true": the valid flag is not consulted
RECURSIVE FindWalkIgnoresValid(_, _, _, _)
FindWalkIgnoresValid(h, n, key, i) ==
    IF i > Len(key) THEN [value |-> h[n].value, found |-> TRUE]
    ELSE LET c == h[n].children[key[i]]
         IN IF c = nil THEN [value |-> nilValue, found |-> FALSE]
            ELSE FindWalkIgnoresValid(h, c, key, i + 1)

RECURSIVE FindWalk(_, _, _, _)
FindWalk(h, n, key, i) ==
    IF i > Len(key) THEN [value |-> h[n].value, found |-> h[n].valid]
    ELSE LET c == h[n].children[key[i]]
         IN IF c = nil THEN [value |-> nilValue, found |-> FALSE]
            ELSE FindWalk(h, c, key, i + 1)

Find(h, key) == FindWalk(h, root, key, 1)

\* ---------------------------------------------------------------- Insert
\* InsertWalk that breaks out of the loop at the first byte of the key
InsertWalkFromRoot(h, n, keyb, i) ==
    IF i > Len(keyb) THEN [n |-> n, indexLastByte |-> -1]
    ELSE [n |-> n, indexLastByte |-> i]

\* the first loop of Insert: follow existing children; indexLastByte is the
\* (1-based) index of the first byte with no child, or -1
RECURSIVE InsertWalk(_, _, _, _)
InsertWalk(h, n, keyb, i) ==
    IF i > Len(keyb) THEN [n |-> n, indexLastByte |-> -1]
    ELSE LET c == h[n].children[keyb[i]]
         IN IF c = nil THEN [n |-> n, indexLastByte |-> i]
            ELSE InsertWalk(h, c, keyb, i + 1)

\* the second loop of Insert: a new node for each byte of keyb[i:]
RECURSIVE InsertAppend(_, _, _, _)
InsertAppend(h, n, keyb, i) ==
    IF i > Len(keyb) THEN [h |-> h, n |-> n]
    ELSE LET c == Append(n, keyb[i])
             h1 == [p \in DOMAIN h \cup {c} |->
                       IF p = c THEN pnode
                       ELSE IF p = n THEN [h[n] EXCEPT !.children[keyb[i]] = c]
                       ELSE h[p]]
         IN InsertAppend(h1, c, keyb, i + 1)

\* Insert that sets the value of newly created nodes only
InsertKeepsOldValue(h, key, value) ==
    LET w == InsertWalk(h, root, key, 1)
        a == IF w.indexLastByte # -1
             THEN InsertAppend(h, w.n, key, w.indexLastByte)
             ELSE [h |-> h, n |-> w.n]
    IN IF w.indexLastByte = -1 /\ h[w.n].valid THEN h
       ELSE [a.h EXCEPT ![a.n].value = value, ![a.n].valid = TRUE]

Insert(h, key, value) ==
    LET w == InsertWalk(h, root, key, 1)
        a == IF w.indexLastByte # -1
             THEN InsertAppend(h, w.n, key, w.indexLastByte)
             ELSE [h |-> h, n |-> w.n]
    IN [a.h EXCEPT ![a.n].value = value, ![a.n].valid = TRUE]

\* ---------------------------------------------------------------- Delete
\* the lookup loop of Delete: one bookmark per node on the path of key;
\* found is false when a child on the path is missing
RECURSIVE DeleteWalk(_, _, _, _, _)
DeleteWalk(h, n, key, i, bms) ==
    IF i > Len(key) THEN [found |-> TRUE, n |-> n, bookmarks |-> bms]
    ELSE LET c == h[n].children[key[i]]
         IN IF c = nil THEN [found |-> FALSE, n |-> n, bookmarks |-> bms]
            ELSE DeleteWalk(h, c, key, i + 1,
                            Append(bms, [n |-> c, prefix |-> <<key[i]>>]))

\* "Check this node for children"
HasChildren(nd) == \E i \in Bytes : nd.children[i] # nil

\* DeleteCleanup without "Check this node for children"
RECURSIVE DeleteCleanupIgnoresChildren(_, _, _)
DeleteCleanupIgnoresChildren(h, bms, prev) ==
    LET bi == Len(bms) - 1
        bm == bms[Len(bms)]
        rest == SubSeq(bms, 1, Len(bms) - 1)
        h1 == IF prev # NumChildren
              THEN [h EXCEPT ![bm.n].children[prev] = nil]
              ELSE h
    IN IF bi = 0 THEN h1
       ELSE IF h1[bm.n].valid THEN h1
       ELSE DeleteCleanupIgnoresChildren(h1, rest, bm.prefix[1])

\* DeleteCleanup that unlinks the node of the key and does not go on to its
\* ancestors
RECURSIVE DeleteCleanupOneLevel(_, _, _)
DeleteCleanupOneLevel(h, bms, prev) ==
    LET bi == Len(bms) - 1
        bm == bms[Len(bms)]
        rest == SubSeq(bms, 1, Len(bms) - 1)
        h1 == IF prev # NumChildren
              THEN [h EXCEPT ![bm.n].children[prev] = nil]
              ELSE h
    IN IF bi = 0 \/ prev # NumChildren THEN h1
       ELSE IF h1[bm.n].valid THEN h1
       ELSE IF \E i \in Bytes : h1[bm.n].children[i] # nil THEN h1
       ELSE DeleteCleanupOneLevel(h1, rest, bm.prefix[1])

\* the backward cleanup loop of Delete; prev = NumChildren stands for 256
RECURSIVE DeleteCleanup(_, _, _)
DeleteCleanup(h, bms, prev) ==
    LET bi == Len(bms) - 1
        bm == bms[Len(bms)]
        rest == SubSeq(bms, 1, Len(bms) - 1)
        h1 == IF prev # NumChildren
              THEN [h EXCEPT ![bm.n].children[prev] = nil]
              ELSE h
    IN IF bi = 0 THEN h1
       ELSE IF h1[bm.n].valid THEN h1
       ELSE IF HasChildren(h1[bm.n]) THEN h1
       ELSE DeleteCleanup(h1, rest, bm.prefix[1])

\* the number of times the body of the cleanup loop "for { ... }" runs:
\* every pass either returns or goes on with the bookmark below
RECURSIVE DeleteCleanupSteps(_, _, _)
DeleteCleanupSteps(h, bms, prev) ==
    LET bi == Len(bms) - 1
        bm == bms[Len(bms)]
        rest == SubSeq(bms, 1, Len(bms) - 1)
        h1 == IF prev # NumChildren
              THEN [h EXCEPT ![bm.n].children[prev] = nil]
              ELSE h
    IN IF bi = 0 THEN 1
       ELSE IF h1[bm.n].valid THEN 1
       ELSE IF HasChildren(h1[bm.n]) THEN 1
       ELSE 1 + DeleteCleanupSteps(h1, rest, bm.prefix[1])

\* the pnode objects still linked from t.root
RECURSIVE Linked(_, _)
Linked(h, n) ==
    {n} \cup UNION {Linked(h, h[n].children[b]) :
                       b \in {x \in Bytes : h[n].children[x] # nil}}

\* Delete that returns true for every key whose node exists
DeleteReportsFound(h, key) ==
    LET w == DeleteWalk(h, root, key, 1, <<[n |-> root, prefix |-> <<>>]>>)
    IN IF ~w.found THEN [h |-> h, ret |-> FALSE]
       ELSE LET wasValid == h[w.n].valid
                h1 == [h EXCEPT ![w.n].valid = FALSE]
            IN IF ~wasValid THEN [h |-> h1, ret |-> TRUE]
               ELSE [h |-> DeleteCleanup(h1, w.bookmarks, NumChildren), ret |-> TRUE]

\* Delete that reads n.valid into wasValid after it has cleared the flag
DeleteReadsFlagLate(h, key) ==
    LET w == DeleteWalk(h, root, key, 1, <<[n |-> root, prefix |-> <<>>]>>)
    IN IF ~w.found THEN [h |-> h, ret |-> FALSE]
       ELSE LET h1 == [h EXCEPT ![w.n].valid = FALSE]
                wasValid == h1[w.n].valid
            IN IF ~wasValid THEN [h |-> h1, ret |-> FALSE]
               ELSE [h |-> DeleteCleanup(h1, w.bookmarks, NumChildren), ret |-> TRUE]

\* Delete without the backward cleanup
DeleteKeepsNodes(h, key) ==
    LET w == DeleteWalk(h, root, key, 1, <<[n |-> root, prefix |-> <<>>]>>)
    IN IF ~w.found THEN [h |-> h, ret |-> FALSE]
       ELSE LET wasValid == h[w.n].valid
                h1 == [h EXCEPT ![w.n].valid = FALSE]
            IN [h |-> h1, ret |-> wasValid]

\* Delete returns the heap as the code leaves it (unlinked nodes included)
\* and the boolean it returns
Delete(h, key) ==
    LET w == DeleteWalk(h, root, key, 1, <<[n |-> root, prefix |-> <<>>]>>)
    IN IF ~w.found THEN [h |-> h, ret |-> FALSE]
       ELSE LET wasValid == h[w.n].valid
                h1 == [h EXCEPT ![w.n].valid = FALSE]
            IN IF ~wasValid THEN [h |-> h1, ret |-> FALSE]
               ELSE [h |-> DeleteCleanup(h1, w.bookmarks, NumChildren), ret |-> TRUE]

\* the passes of the cleanup loop that Delete(key) makes; 0 when it returns
\* before the loop
DeleteSteps(h, key) ==
    LET w == DeleteWalk(h, root, key, 1, <<[n |-> root, prefix |-> <<>>]>>)
    IN IF ~w.found THEN 0
       ELSE IF ~h[w.n].valid THEN 0
       ELSE DeleteCleanupSteps([h EXCEPT ![w.n].valid = FALSE],
                               w.bookmarks, NumChildren)

\* Go's garbage collector: a pnode no longer linked from t.root leaves the
\* heap, and a scan bookmark that points to it keeps the object (gone)
Collect(h) == [p \in Linked(h, root) |-> h[p]]

Unlink(h, bms) ==
    [i \in 1..Len(bms) |->
        IF ~bms[i].gone /\ bms[i].n \notin Linked(h, root)
        THEN [bms[i] EXCEPT !.gone = TRUE, !.stale = h[bms[i].n].value]
        ELSE bms[i]]

\* ------------------------------------------------------------------ Scan
\* &pbookmark{n: n, prefix: prefix}: k starts at 0
pbookmark(n, prefix) ==
    [n |-> n, prefix |-> prefix, k |-> 0, gone |-> FALSE, stale |-> nilValue]

\* *bm.n: the pnode a scan bookmark points to
Deref(h, bm) ==
    IF bm.gone THEN [pnode EXCEPT !.value = bm.stale] ELSE h[bm.n]

\* "for ; bm.k < 256; bm.k++": the value of bm.k where the loop stops, which
\* is the first index from k on with a child, or NumChildren (256)
NextChild(nd, k) ==
    LET cs == {b \in Bytes : b >= k /\ nd.children[b] # nil}
    IN IF cs = {} THEN NumChildren
       ELSE CHOOSE b \in cs : \A c \in cs : b <= c

\* The body of Scan from the label outer on.  bms is t.bookmarks, bm is its
\* last element and itop = Len(bms) - 1.
RECURSIVE ScanOuter(_, _)
RECURSIVE ScanPop(_, _)
\* ScanOuter that also steps the k of the parent past the child it pushes
RECURSIVE ScanOuterAdvancesParent(_, _)
ScanOuterAdvancesParent(h, bms) ==
    LET itop == Len(bms)
        bm == bms[itop]
        k == NextChild(Deref(h, bm), bm.k)
        bms1 == [bms EXCEPT ![itop].k = k]
    IN IF k < NumChildren
       THEN LET child == Deref(h, bm).children[k]
                bms2 == Append([bms EXCEPT ![itop].k = k + 1],
                               pbookmark(child, Append(bm.prefix, k)))
            IN IF h[child].valid THEN [bookmarks |-> bms2, ret |-> TRUE]
               ELSE ScanOuterAdvancesParent(h, bms2)
       ELSE ScanPop(h, bms1)

\* ScanOuter without "if child.valid": it returns true at every child
RECURSIVE ScanOuterStopsAtEveryNode(_, _)
ScanOuterStopsAtEveryNode(h, bms) ==
    LET itop == Len(bms)
        bm == bms[itop]
        k == NextChild(Deref(h, bm), bm.k)
        bms1 == [bms EXCEPT ![itop].k = k]
    IN IF k < NumChildren
       THEN LET child == Deref(h, bm).children[k]
                bms2 == Append(bms1, pbookmark(child, Append(bm.prefix, k)))
            IN [bookmarks |-> bms2, ret |-> TRUE]
       ELSE ScanPop(h, bms1)

\* ScanOuter whose new bookmark holds the one byte that selects the child,
\* as the bookmarks of Delete do
RECURSIVE ScanOuterOneByte(_, _)
ScanOuterOneByte(h, bms) ==
    LET itop == Len(bms)
        bm == bms[itop]
        k == NextChild(Deref(h, bm), bm.k)
        bms1 == [bms EXCEPT ![itop].k = k]
    IN IF k < NumChildren
       THEN LET child == Deref(h, bm).children[k]
                bms2 == Append(bms1, pbookmark(child, <<k>>))
            IN IF h[child].valid THEN [bookmarks |-> bms2, ret |-> TRUE]
               ELSE ScanOuterOneByte(h, bms2)
       ELSE ScanPop(h, bms1)

\* ScanOuter that pushes the child and leaves bm.k of the parent where the
\* search began
RECURSIVE ScanOuterKeepsIndex(_, _)
ScanOuterKeepsIndex(h, bms) ==
    LET itop == Len(bms)
        bm == bms[itop]
        k == NextChild(Deref(h, bm), bm.k)
        bms1 == [bms EXCEPT ![itop].k = k]
    IN IF k < NumChildren
       THEN LET child == Deref(h, bm).children[k]
                bms2 == Append(bms, pbookmark(child, Append(bm.prefix, k)))
            IN IF h[child].valid THEN [bookmarks |-> bms2, ret |-> TRUE]
               ELSE ScanOuterKeepsIndex(h, bms2)
       ELSE ScanPop(h, bms1)

ScanOuter(h, bms) ==
    LET itop == Len(bms)
        bm == bms[itop]
        k == NextChild(Deref(h, bm), bm.k)
        bms1 == [bms EXCEPT ![itop].k = k]
    IN IF k < NumChildren
       THEN LET child == Deref(h, bm).children[k]
                bms2 == Append(bms1, pbookmark(child, Append(bm.prefix, k)))
            IN IF h[child].valid THEN [bookmarks |-> bms2, ret |-> TRUE]
               ELSE ScanOuter(h, bms2)
       ELSE ScanPop(h, bms1)

\* ScanPop without the "bm.k++" that follows the pop loop
RECURSIVE ScanPopNoAdvance(_, _)
ScanPopNoAdvance(h, bms) ==
    LET itop == Len(bms)
        bm == bms[itop]
    IN IF bm.k = NumChildren
       THEN IF itop = 1 THEN [bookmarks |-> bms, ret |-> FALSE]
            ELSE ScanPopNoAdvance(h, SubSeq(bms, 1, itop - 1))
       ELSE ScanOuter(h, bms)

\* "for bm.k == 256": pop until a bookmark has children left to search; the
\* return of false leaves t.bookmarks as it is
ScanPop(h, bms) ==
    LET itop == Len(bms)
        bm == bms[itop]
    IN IF bm.k = NumChildren
       THEN IF itop = 1 THEN [bookmarks |-> bms, ret |-> FALSE]
            ELSE ScanPop(h, SubSeq(bms, 1, itop - 1))
       ELSE ScanOuter(h, [bms EXCEPT ![itop].k = bm.k + 1])

Scan(h, bms) ==
    IF Len(bms) = 0 THEN ScanOuter(h, <<pbookmark(root, <<>>)>>)
    ELSE ScanOuter(h, bms)

\* Pair and Text read the top bookmark
Pair(h, bms) ==
    LET bm == bms[Len(bms)] IN <<bm.prefix, Deref(h, bm).value>>

Text(bms) == bms[Len(bms)].prefix

\* Text of the revision whose bookmarks have no prefix: the k of every
\* bookmark below the top one, written as bytes
TextOfIndexes(bms) == [i \in 1..(Len(bms) - 1) |-> bms[i].k % 256]

\* "for t.Scan() { ... t.Text() ... }": the keys read in the caller's loop,
\* which ends when Scan returns false
RECURSIVE ScanLoop(_, _)
ScanLoop(h, bms) ==
    LET r == Scan(h, bms)
    IN IF r.ret THEN <<Text(r.bookmarks)>> \o ScanLoop(h, r.bookmarks)
       ELSE <<>>

\* --------------------------------------------------------------- actions
Init ==
    /\ nodes = NewPrefixTrie
    /\ bookmarks = <<>>
    /\ stored = <<>>
    /\ last = [op |-> "New", key |-> <<>>, ret |-> FALSE, value |-> nilValue]
    /\ scanning = FALSE
    /\ yielded = <<>>
    /\ dirty = FALSE
    /\ fresh = FALSE
    /\ passes = <<>>
    /\ nins = 0
    /\ ndel = 0

\* what a mutation does to the history of the scan passes
Mutated ==
    /\ dirty' = (dirty \/ scanning)
    /\ yielded' = <<>>
    /\ passes' = <<>>
    /\ UNCHANGED <<scanning, fresh>>

\* t.Insert(key, value)
InsertStep ==
    \E key \in Keys, value \in Values :
        /\ nins < MaxIns
        /\ nins' = nins + 1
        /\ nodes' = Insert(nodes, key, value)
        /\ stored' = [x \in DOMAIN stored \cup {key} |->
                         IF x = key THEN value ELSE stored[x]]
        /\ last' = [op |-> "Insert", key |-> key, ret |-> TRUE, value |-> nilValue]
        /\ Mutated
        /\ UNCHANGED <<bookmarks, ndel>>

\* Find that creates the missing nodes of the key as it walks
FindStepCreatesNodes ==
    \E key \in Keys :
        LET r == Find(nodes, key)
            w == InsertWalk(nodes, root, key, 1)
        IN /\ nodes' = IF w.indexLastByte # -1
                       THEN InsertAppend(nodes, w.n, key, w.indexLastByte).h
                       ELSE nodes
           /\ last' = [op |-> "Find", key |-> <<>>, ret |-> r.found, value |-> r.value]
           /\ UNCHANGED <<bookmarks, stored, scanning, yielded, dirty, fresh, passes, nins, ndel>>

\* t.Find(key)
FindStep ==
    \E key \in Keys :
        LET r == Find(nodes, key)
        IN /\ last' = [op |-> "Find", key |-> <<>>, ret |-> r.found, value |-> r.value]
           /\ UNCHANGED <<nodes, bookmarks, stored, scanning, yielded, dirty, fresh, passes, nins, ndel>>

\* t.Pair() and t.Text(); with no bookmarks the index -1 panics
PairStep ==
    /\ Len(bookmarks) > 0
    /\ last' = [op |-> "Pair", key |-> Text(bookmarks), ret |-> TRUE,
                value |-> Pair(nodes, bookmarks)[2]]
    /\ UNCHANGED <<nodes, bookmarks, stored, scanning, yielded, dirty, fresh, passes, nins, ndel>>

\* Delete that keeps its stack of bookmarks in t.bookmarks
DeleteStepOnCursor ==
    \E key \in Keys :
        LET r == Delete(nodes, key)
            w == DeleteWalk(nodes, root, key, 1, <<[n |-> root, prefix |-> <<>>]>>)
        IN /\ ndel < MaxDel
           /\ ndel' = ndel + 1
           /\ nodes' = Collect(r.h)
           /\ bookmarks' = Unlink(r.h, [i \in 1..Len(w.bookmarks) |->
                                pbookmark(w.bookmarks[i].n, w.bookmarks[i].prefix)])
           /\ stored' = [x \in DOMAIN stored \ {key} |-> stored[x]]
           /\ last' = [op |-> "Delete", key |-> key, ret |-> r.ret, value |-> nilValue]
           /\ Mutated
           /\ UNCHANGED nins

\* t.Delete(key)
DeleteStep ==
    \E key \in Keys :
        LET r == Delete(nodes, key)
        IN /\ ndel < MaxDel
           /\ ndel' = ndel + 1
           /\ nodes' = Collect(r.h)
           /\ bookmarks' = Unlink(r.h, bookmarks)
           /\ stored' = [x \in DOMAIN stored \ {key} |-> stored[x]]
           /\ last' = [op |-> "Delete", key |-> key, ret |-> r.ret, value |-> nilValue]
           /\ Mutated
           /\ UNCHANGED nins

\* t.Scan(), and when it returns true the caller's read of t.Pair()
ScanStep ==
    LET r == Scan(nodes, bookmarks)
        y == IF scanning THEN yielded ELSE <<>>
        d == scanning /\ dirty
    IN /\ bookmarks' = r.bookmarks
       /\ scanning' = r.ret
       /\ fresh' = IF scanning THEN fresh ELSE Len(bookmarks) = 0
       /\ dirty' = d
       /\ yielded' = IF r.ret /\ ~d THEN Append(y, Pair(nodes, r.bookmarks)) ELSE y
       /\ passes' = IF r.ret THEN passes
                    ELSE IF d THEN <<>>
                    ELSE IF passes = <<>> THEN <<y>>
                    ELSE <<passes[Len(passes)], y>>
       /\ last' = [op |-> "Scan", ret |-> r.ret,
                   key |-> IF r.ret THEN Text(r.bookmarks) ELSE <<>>,
                   value |-> IF r.ret THEN Pair(nodes, r.bookmarks)[2] ELSE nilValue]
       /\ UNCHANGED <<nodes, stored, nins, ndel>>

Next == InsertStep \/ FindStep \/ DeleteStep \/ ScanStep \/ PairStep

Spec == Init /\ [][Next]_vars

\* a new trie that is filled by Insert only and then enumerated
NextInsertScan == InsertStep \/ ScanStep

SpecInsertScan == Init /\ [][NextInsertScan]_vars

\* the caller's loop "for t.Scan() { ... }" keeps calling Scan for as long
\* as Scan returns true: weak fairness WF_vars(scanning /\ ScanStep) of the
\* call inside the loop, written out with scanning for
\* ENABLED <<scanning /\ ScanStep>>_vars (see ScanLoopCanStep)
ScanLoopFair == []<>(~scanning) \/ []<><<scanning /\ ScanStep>>_vars

SpecScanLoop == Init /\ [][Next]_vars /\ ScanLoopFair

\* inside the loop a call of Scan is a step: it returns false, or it returns
\* true and has moved the cursor
ScanLoopCanStep ==
    scanning => LET r == Scan(nodes, bookmarks)
                IN ~r.ret \/ r.bookmarks # bookmarks

\* ------------------------------------------------- byte-lexicographic order
\* a < b byte by byte; a proper prefix is smaller
LexLess(a, b) ==
    \E i \in 1..Len(b) :
        /\ i <= Len(a) + 1
        /\ SubSeq(a, 1, i - 1) = SubSeq(b, 1, i - 1)
        /\ (i = Len(a) + 1 \/ a[i] < b[i])

\* the pairs <<key, value>> of the map m in ascending order of key
RECURSIVE SortedPairs(_, _)
SortedPairs(m, S) ==
    IF S = {} THEN <<>>
    ELSE LET k == CHOOSE x \in S : \A y \in S \ {x} : LexLess(x, y)
         IN <<<<k, m[k]>>>> \o SortedPairs(m, S \ {k})

\* ------------------------------------------------------------------ claims

\* C1: when the first enumeration of a trie filled by Insert calls only
\* completes (Scan returns false, no Insert since its first Scan call), the
\* pairs read after its true results are exactly the stored keys with their
\* values, each once, in ascending byte-lexicographic order.
C1_ScanYieldsStoredKeysInOrder ==
    (~scanning /\ fresh /\ passes # <<>>)
        => passes[Len(passes)] = SortedPairs(stored, DOMAIN stored)

\* C2: when two enumerations complete one after the other with no Insert or
\* Delete since the first began, the second yields the same sequence as the
\* first.
C2_RestartYieldsSameSequence ==
    Len(passes) = 2 => passes[2] = passes[1]

\* a is a proper prefix of b
ProperPrefix(a, b) == Len(a) < Len(b) /\ SubSeq(b, 1, Len(a)) = a

\* C3: every key whose last Insert stored v and that was not deleted since
\* is found with value v, whatever was inserted or deleted around it.
C3_FindReturnsStoredValue ==
    \A k \in DOMAIN stored : Find(nodes, k) = [value |-> stored[k], found |-> TRUE]

\* a Find has just found a stored key after two Inserts and a Delete
C3_Witness ==
    /\ last.op = "Find" /\ last.ret
    /\ nins = MaxIns /\ ndel >= 1
    /\ \E k \in DOMAIN stored : stored[k] = last.value

\* C4: Find reports found = false for every key that is not stored: never
\* inserted or deleted since, a proper prefix of a stored key or an
\* extension of one.
C4_FindMissesUnstoredKeys ==
    \A k \in Keys \ DOMAIN stored : ~Find(nodes, k).found

\* a Find has just missed on a path node that still holds the value of a
\* deleted key, below which a key is stored
C4_Witness ==
    /\ last.op = "Find" /\ ~last.ret /\ last.value # nilValue
    /\ ndel >= 1
    /\ \E k \in DOMAIN stored : Len(k) >= 1

\* C5: Delete(k) returns true exactly when k was stored before the call;
\* after a true result Find(k) misses and a repeated Delete(k) returns false.
C5_DeleteReturnsWhetherStored ==
    [][last'.op = "Delete" =>
          /\ last'.ret <=> (last'.key \in DOMAIN stored)
          /\ last'.ret => /\ ~Find(nodes', last'.key).found
                          /\ ~Delete(nodes', last'.key).ret]_vars

\* a Delete of a non-empty key has just returned true and other keys remain
C5_Witness ==
    /\ last.op = "Delete" /\ last.ret /\ last.key # <<>>
    /\ DOMAIN stored # {}

\* C6 as stated: a Delete(k) that returns true leaves the pair (value,
\* found) that Find returns unchanged for every other key.
C6_DeleteKeepsOtherFinds ==
    [][(last'.op = "Delete" /\ last'.ret) =>
          \A k \in Keys \ {last'.key} : Find(nodes', k) = Find(nodes, k)]_vars

\* C6 amended: a Delete(k) that returns true leaves found unchanged for
\* every other key, and the value too when the key is found.
C6_DeleteKeepsOtherKeys ==
    [][(last'.op = "Delete" /\ last'.ret) =>
          \A k \in Keys \ {last'.key} :
              /\ Find(nodes', k).found = Find(nodes, k).found
              /\ Find(nodes, k).found => Find(nodes', k) = Find(nodes, k)]_vars

\* a Delete has just returned true for a key with a stored proper prefix or
\* a stored extension
C6_Witness ==
    /\ last.op = "Delete" /\ last.ret
    /\ \E k \in DOMAIN stored : ProperPrefix(k, last.key) \/ ProperPrefix(last.key, k)

\* C7: a Delete that returns false changes neither the nodes nor the scan
\* cursor, and the same call again returns false and changes nothing.
C7_FailedDeleteMutatesNothing ==
    [][(last'.op = "Delete" /\ ~last'.ret) =>
          /\ nodes' = nodes
          /\ bookmarks' = bookmarks
          /\ stored' = stored
          /\ Delete(nodes', last'.key) = [h |-> nodes', ret |-> FALSE]]_vars

\* a Delete has just returned false on a path node that holds a stale
\* value, while the scan cursor has bookmarks
C7_Witness ==
    /\ last.op = "Delete" /\ ~last.ret
    /\ last.key \in DOMAIN nodes /\ nodes[last.key].value # nilValue
    /\ bookmarks # <<>>

\* C8: once every inserted key has been deleted the root has no children
\* and is the only node.
C8_DeleteAllLeavesOnlyRoot ==
    DOMAIN stored = {} => (~HasChildren(nodes[root]) /\ Linked(nodes, root) = {root})

\* two Inserts and two Deletes, the last one of a longest key and
\* successful, have emptied the trie
C8_Witness ==
    /\ DOMAIN stored = {}
    /\ nins >= 2 /\ ndel >= 2
    /\ last.op = "Delete" /\ last.ret /\ Len(last.key) = MaxKeyLen

\* C9: between operations every node linked from the root, other than the
\* root, is valid or has a child.
C9_NoUselessNode ==
    \A p \in Linked(nodes, root) \ {root} : nodes[p].valid \/ HasChildren(nodes[p])

\* a successful Delete has left a path node that is not valid
C9_Witness ==
    /\ last.op = "Delete" /\ last.ret
    /\ \E p \in Linked(nodes, root) \ {root} : ~nodes[p].valid

\* the prefixes of key, the empty one and key itself included
Prefixes(key) == {SubSeq(key, 1, j) : j \in 0..Len(key)}

\* C10: Insert(k, v) keeps every node and every child link, changes the
\* flag and value of no node but k's, leaves Find unchanged for every other
\* key, and creates nodes only for the prefixes of k that had none.
C10_InsertKeepsStructure ==
    [][last'.op = "Insert" =>
          /\ \A p \in DOMAIN nodes :
                /\ p \in DOMAIN nodes'
                /\ \A b \in Bytes : nodes[p].children[b] # nil
                                       => nodes'[p].children[b] = nodes[p].children[b]
                /\ p # last'.key => /\ nodes'[p].valid = nodes[p].valid
                                    /\ nodes'[p].value = nodes[p].value
          /\ \A k \in Keys \ {last'.key} : Find(nodes', k) = Find(nodes, k)
          /\ DOMAIN nodes' \ DOMAIN nodes = Prefixes(last'.key) \ DOMAIN nodes
          /\ Linked(nodes', root) = DOMAIN nodes']_vars

\* an Insert has just created two nodes beside an existing stored key
C10_Witness ==
    /\ last.op = "Insert" /\ Len(last.key) = 2
    /\ nins = 2 /\ ndel = 0
    /\ Cardinality(DOMAIN nodes) >= 4

\* C11: Insert(k, v2) on a stored key k keeps the stored keys and the nodes,
\* Find(k) then returns (v2, true), and the caller's Scan loop, started
\* with no bookmarks, reads k exactly once.
C11_OverwriteKeepsKeysAndNodes ==
    [][(last'.op = "Insert" /\ last'.key \in DOMAIN stored /\ bookmarks' = <<>>) =>
          /\ DOMAIN stored' = DOMAIN stored
          /\ DOMAIN nodes' = DOMAIN nodes
          /\ Find(nodes', last'.key) = [value |-> stored'[last'.key], found |-> TRUE]
          /\ LET keys == ScanLoop(nodes', bookmarks')
             IN Cardinality({i \in 1..Len(keys) : keys[i] = last'.key}) = 1]_vars

\* C12: after a true Scan of an enumeration with no Insert or Delete since
\* its first Scan call, the key of Text() and Pair() is the path of the node
\* of the top bookmark, the key is stored, and the value of Pair() is the
\* value Find returns for it.
C12_CursorReportsStoredPair ==
    (scanning /\ ~dirty) =>
        LET top == bookmarks[Len(bookmarks)]
            key == Text(bookmarks)
        IN /\ ~top.gone /\ key = top.n
           /\ Pair(nodes, bookmarks)[1] = key
           /\ TextOfIndexes(bookmarks) = key
           /\ key \in DOMAIN stored
           /\ Find(nodes, key) = [value |-> Pair(nodes, bookmarks)[2], found |-> TRUE]
           /\ stored[key] = Pair(nodes, bookmarks)[2]

\* Pair has just been read after a true Scan that stands on a key of two
\* bytes, with no mutation during the pass
C12_Witness ==
    /\ last.op = "Pair" /\ scanning /\ ~dirty
    /\ Len(last.key) = 2 /\ last.value # nilValue

\* C13: Find, Text and Pair change neither a node nor the scan cursor, Scan
\* changes no node, and none of them changes what Find returns for any key.
C13_ReadsChangeNoNode ==
    [][/\ last'.op \in {"Find", "Pair"} => (nodes' = nodes /\ bookmarks' = bookmarks)
       /\ last'.op = "Scan" => nodes' = nodes
       /\ last'.op \in {"Find", "Pair", "Scan"} =>
              /\ stored' = stored
              /\ \A k \in Keys : Find(nodes', k) = Find(nodes, k)]_vars

\* a Find has just returned true while the scan cursor stands on a key
C13_Witness ==
    /\ last.op = "Find" /\ last.ret
    /\ scanning /\ Len(bookmarks) >= 2

\* C14: after a Scan that returned false the scan cursor has no bookmarks.
C14_FalseScanEmptiesCursor ==
    (last.op = "Scan" /\ ~last.ret) => bookmarks = <<>>

C16_CursorStackIsPath ==
    (scanning /\ ~dirty) =>
        /\ bookmarks[1].n = root /\ bookmarks[1].prefix = <<>>
        /\ \A i \in 2..Len(bookmarks) :
              LET b == bookmarks[i].prefix[Len(bookmarks[i].prefix)]
              IN /\ ~bookmarks[i].gone /\ ~bookmarks[i - 1].gone
                 /\ bookmarks[i - 1].k = b
                 /\ nodes[bookmarks[i - 1].n].children[b] = bookmarks[i].n
                 /\ bookmarks[i].prefix = Append(bookmarks[i - 1].prefix, b)
        /\ Len(bookmarks) >= 2
        /\ nodes[bookmarks[Len(bookmarks)].n].valid

\* the cursor stands on a key of two bytes whose parent is a path node
C16_Witness ==
    /\ last.op = "Scan" /\ last.ret /\ ~dirty
    /\ Len(bookmarks) = 3 /\ ~nodes[bookmarks[2].n].valid

\* C17: Delete of the empty key returns whether the root was valid, and
\* when it returns true it clears that flag and changes nothing else; after
\* every Delete the root is still there and every key that remains stored is
\* found from it with its value.
C17_RootIsNeverPruned ==
    [][last'.op = "Delete" =>
          /\ root \in DOMAIN nodes'
          /\ last'.key = <<>> =>
                /\ last'.ret = nodes[root].valid
                /\ nodes' = [nodes EXCEPT ![root].valid = FALSE]
                /\ bookmarks' = bookmarks
          /\ \A k \in DOMAIN stored' :
                Find(nodes', k) = [value |-> stored'[k], found |-> TRUE]]_vars

\* a Delete of the stored empty key has just returned true and left the
\* root with a child
C17_Witness ==
    /\ last.op = "Delete" /\ last.ret /\ last.key = <<>>
    /\ HasChildren(nodes[root]) /\ DOMAIN stored # {}

\* C18: a pass of Scan calls ends: the pairs reported in one pass without
\* mutation are never more than the nodes of the trie, a pass that is under
\* way leads to a Scan that returns false, and the cleanup loop of Delete
\* runs at most once per byte of the key and once more.
C18_ScanAndCleanupTerminate ==
    /\ [](~dirty => Len(yielded) <= Cardinality(DOMAIN nodes))
    /\ [](\A key \in Keys : DeleteSteps(nodes, key) <= Len(key) + 1)
    /\ (scanning ~> ~scanning)

\* a pass from a fresh cursor has ended with false after two pairs, and the
\* cleanup of a stored key of two bytes would run three times
C18_Witness ==
    /\ last.op = "Scan" /\ ~last.ret /\ ~dirty /\ fresh
    /\ Len(yielded) = 2
    /\ \E key \in DOMAIN stored :
          Len(key) = 2 /\ DeleteSteps(nodes, key) = Len(key) + 1

\* C19: for a key k that is not stored, Insert(k, v) and then Delete(k)
\* returns true and gives back the nodes, child links and valid flags there
\* were; the one value that may differ is v left on the node of k when that
\* node was there before.
C19_InsertDeleteRoundTrip ==
    \A k \in Keys \ DOMAIN stored : \A v \in Values :
        LET d == Delete(Insert(nodes, k, v), k)
            h2 == Collect(d.h)
        IN /\ d.ret
           /\ DOMAIN h2 = DOMAIN nodes
           /\ \A p \in DOMAIN nodes :
                 /\ h2[p].children = nodes[p].children
                 /\ h2[p].valid = nodes[p].valid
                 /\ h2[p].value # nodes[p].value => (p = k /\ h2[p].value = v)

\* an Insert and a successful Delete have left the value on a path node
\* that is not a stored key
C19_Witness ==
    /\ last.op = "Delete" /\ last.ret
    /\ last.key \in DOMAIN nodes /\ last.key \notin DOMAIN stored
    /\ nodes[last.key].value # nilValue

\* C20: after every Scan that returns true, also when Insert and Delete
\* calls came between the Scan calls of the pass, the key of Text() is
\* stored and Find returns for it the value of Pair(); the top bookmark is
\* not a node that was pruned.
C20_ScanReportsStoredKey ==
    (last.op = "Scan" /\ last.ret) =>
        /\ Pair(nodes, bookmarks) = <<last.key, last.value>>
        /\ ~bookmarks[Len(bookmarks)].gone
        /\ last.key \in DOMAIN stored
        /\ Find(nodes, last.key) = [value |-> last.value, found |-> TRUE]

\* a Scan has just returned true in a pass during which keys were inserted
\* and deleted
C20_Witness ==
    /\ last.op = "Scan" /\ last.ret /\ dirty
    /\ nins = MaxIns /\ ndel >= 1

====
